---- MODULE Spec2Model ----
(***************************************************************************)
(* Model of modules/eletrolise.py: class Eletrolisador.                    *)
(*                                                                         *)
(* Python floats are modelled as exact rationals <<n, d>> (d > 0, lowest   *)
(* terms).  The one transcendental step, the Tafel term of                 *)
(* calcular_sobretencao_ativacao, is computed in fixed point (microvolts)  *)
(* with a table-driven log10.  Python lists are objects on a heap, so that *)
(* two dicts can hold the same list.                                       *)
(***************************************************************************)
EXTENDS Integers, Sequences, FiniteSets, TLC

VARIABLES
    PARAMETROS_PADRAO,      \* class attribute (l. 62-96): tag -> default parameter dict
    estado,                 \* outcome of __init__: "nenhum" | "criado" | "erro" (ValueError, l. 115)
    tipo,                   \* self.tipo (l. 113)
    P_nom,                  \* self.P_nom (l. 117)
    P_min,                  \* self.P_min (l. 118)
    parametros,             \* self.parametros (l. 121)
    potencia_atual,         \* self.potencia_atual (l. 124, 329)
    temperatura_atual,      \* self.temperatura_atual (l. 125)
    horas_operacao,         \* self.horas_operacao (l. 126, 330)
    producao_acumulada_kg,  \* self.producao_acumulada_kg (l. 127, 331)
    historico,              \* self.historico (l. 130-135): key -> reference to a list object
    listas,                 \* heap of list objects: reference -> contents
    copia,                  \* the dict last returned by get_historico (l. 433), held by the caller
    chamadas,               \* trace: <<delta_t_horas, producao_periodo_kg>> of every operar call
    n_mut,                  \* number of caller modifications of copia so far
    anterior,               \* the query call before the last one: operation, arguments, result
    ultimo                  \* the last call: operation, arguments, result

vars == <<PARAMETROS_PADRAO, estado, tipo, P_nom, P_min, parametros, potencia_atual,
          temperatura_atual, horas_operacao, producao_acumulada_kg, historico,
          listas, copia, chamadas, n_mut, anterior, ultimo>>

----------------------------------------------------------------------------
(* Bounds of the model *)

MaxOps == 2         \* operar calls per instance
MaxMut == 1         \* caller modifications of a returned history

----------------------------------------------------------------------------
(* Rational arithmetic: the float operations +, *, /, <, <=, min, max *)

Abs(x) == IF x < 0 THEN -x ELSE x

RECURSIVE GCD(_, _)
GCD(a, b) == IF b = 0 THEN a ELSE GCD(b, a % b)

LCM(a, b) == (a \div GCD(a, b)) * b

Rat(n, d) ==
    LET s == IF d < 0 THEN -1 ELSE 1
        g == GCD(Abs(n), Abs(d))
    IN  <<(s * n) \div g, (s * d) \div g>>

Zero == <<0, 1>>

RAdd(a, b) ==
    LET l == LCM(a[2], b[2])
    IN  Rat(a[1] * (l \div a[2]) + b[1] * (l \div b[2]), l)

RMul(a, b) ==
    LET g1 == GCD(Abs(a[1]), b[2])
        g2 == GCD(Abs(b[1]), a[2])
    IN  Rat((a[1] \div g1) * (b[1] \div g2), (a[2] \div g2) * (b[2] \div g1))

RDiv(a, b) == RMul(a, Rat(b[2], b[1]))

RLt(a, b) ==
    LET l == LCM(a[2], b[2])
    IN  a[1] * (l \div a[2]) < b[1] * (l \div b[2])

RLe(a, b) == ~RLt(b, a)

\* Python's max(a, b) and min(a, b): the first argument unless the second beats it
RMax(a, b) == IF RLt(a, b) THEN b ELSE a

RMin(a, b) == IF RLt(b, a) THEN b ELSE a

\* floor(x * escala) for a rational x: conversion to fixed point
Fixo(x, escala) == (x[1] * escala) \div x[2]

----------------------------------------------------------------------------
(* Physical constants of the class *)

R_mil == 8314               \* R = 8.314 J/(mol K), in thousandths
F == 96485                  \* Faraday constant, C/mol
h_L == Rat(3333, 100)       \* LHV of H2, 33.33 kWh/kg
massa_molar_h2 == Rat(2016, 1000)   \* 2.016 g/mol
Kelvin == Rat(27315, 100)   \* 273.15
Tafel_dec == 23             \* the factor 2.3 of the Tafel term, in tenths
RAZAO_MIN_EXP == 10         \* the floor 1e-10 on j/j0, as a power of ten

----------------------------------------------------------------------------
(* Technology tags are strings, modelled as sequences of characters *)

AEL == <<"A", "E", "L">>
PEMEL == <<"P", "E", "M", "E", "L">>
SOEL == <<"S", "O", "E", "L">>

MAIUSCULA == [a |-> "A", e |-> "E", l |-> "L", p |-> "P", m |-> "M",
              s |-> "S", o |-> "O", i |-> "I", n |-> "N", v |-> "V", d |-> "D"]

\* str.upper(), over the letters the model uses
Upper(s) == [k \in 1..Len(s) |-> IF s[k] \in DOMAIN MAIUSCULA THEN MAIUSCULA[s[k]] ELSE s[k]]

PadraoInicial ==
    AEL :> [eficiencia |-> Rat(68, 100),
            tensao_reversivel |-> Rat(123, 100),
            coeficiente_transferencia |-> Rat(5, 10),
            densidade_corrente_troca |-> Rat(1, 1000),
            resistencia_ohmica |-> Rat(1, 1000),
            temperatura_operacao |-> Rat(70, 1),
            pressao_operacao |-> Rat(30, 1),
            vida_util_anos |-> Rat(20, 1),
            custo_capex_usd_kw |-> Rat(800, 1)]
    @@
    PEMEL :> [eficiencia |-> Rat(78, 100),
              tensao_reversivel |-> Rat(123, 100),
              coeficiente_transferencia |-> Rat(5, 10),
              densidade_corrente_troca |-> Rat(1, 10000),
              resistencia_ohmica |-> Rat(8, 10000),
              temperatura_operacao |-> Rat(60, 1),
              pressao_operacao |-> Rat(35, 1),
              vida_util_anos |-> Rat(15, 1),
              custo_capex_usd_kw |-> Rat(1200, 1)]
    @@
    SOEL :> [eficiencia |-> Rat(89, 100),
             tensao_reversivel |-> Rat(95, 100),
             coeficiente_transferencia |-> Rat(7, 10),
             densidade_corrente_troca |-> Rat(1, 100),
             resistencia_ohmica |-> Rat(2, 1000),
             temperatura_operacao |-> Rat(750, 1),
             pressao_operacao |-> Rat(1, 1),
             vida_util_anos |-> Rat(10, 1),
             custo_capex_usd_kw |-> Rat(2000, 1)]

CAMPOS == {"eficiencia", "tensao_reversivel", "coeficiente_transferencia",
           "densidade_corrente_troca", "resistencia_ohmica", "temperatura_operacao",
           "pressao_operacao", "vida_util_anos", "custo_capex_usd_kw"}

\* dict.update: the keys of b override those of a
Update(a, b) ==
    [k \in (DOMAIN a) \cup (DOMAIN b) |-> IF k \in DOMAIN b THEN b[k] ELSE a[k]]

\* _carregar_parametros: copy of the defaults of the tag, overridden, read field by field
carregar_parametros(t, personalizados) ==
    LET copiada == PARAMETROS_PADRAO[t]
        base == IF DOMAIN personalizados # {} THEN Update(copiada, personalizados) ELSE copiada
    IN  [k \in CAMPOS |-> base[k]]

----------------------------------------------------------------------------
(* The equations *)

None == <<>>

\* faulty variant: the input is not limited to the nominal power
calcular_producao_sem_limite(P_in) ==
    IF RLe(P_in, Zero) THEN Zero
    ELSE RDiv(RMul(P_in, parametros.eficiencia), h_L)

\* faulty variant: the guard on non-positive input is missing
calcular_producao_sem_guarda(P_in) ==
    RDiv(RMul(RMin(P_in, P_nom), parametros.eficiencia), h_L)

\* faulty variant: an input at or above the nominal power is treated as a shutdown
calcular_producao_desliga(P_in) ==
    IF RLe(P_in, Zero) \/ RLe(P_nom, P_in) THEN Zero
    ELSE RDiv(RMul(P_in, parametros.eficiencia), h_L)

\* faulty variant: the efficiency divides instead of multiplying
producao_de_divide(self, P_in) ==
    IF RLe(P_in, Zero) THEN Zero
    ELSE LET P_efetiva == RMin(P_in, self.P_nom)
         IN  RDiv(RDiv(P_efetiva, self.parametros.eficiencia), h_L)

\* calcular_producao(self, P_in): Eq. 2.9, m = (P * eta) / h_L, with P limited to P_nom
producao_de(self, P_in) ==
    IF RLe(P_in, Zero) THEN Zero
    ELSE LET P_efetiva == RMin(P_in, self.P_nom)
         IN  RDiv(RMul(P_efetiva, self.parametros.eficiencia), h_L)

\* calcular_producao called on the instance of the state
calcular_producao(P_in) ==
    producao_de([P_nom |-> P_nom, parametros |-> parametros], P_in)

\* log10 in thousandths, by decade and leading digit: 1000 * (k + log10(digit))
\* for 10^k * digit <= r < 10^k * (digit + 1).  Exact at the powers of ten,
\* non-decreasing, negative exactly when r < 1.
TAB_LOG10 == <<0, 301, 477, 602, 699, 778, 845, 903, 954>>

RECURSIVE Mantissa(_, _, _)
Mantissa(n, d, k) ==
    IF n >= 10 * d THEN Mantissa(n, 10 * d, k + 1)
    ELSE IF n < d THEN Mantissa(10 * n, d, k - 1)
    ELSE <<k, n \div d>>

Log10Milli(r) ==
    LET m == Mantissa(r[1], r[2], 0)
    IN  1000 * m[1] + TAB_LOG10[m[2]]

\* np.log10(max(r, 1e-10)): since log10 is monotone, max(log10(r), -10)
Log10Limitado(r) ==
    LET l == Log10Milli(r)
    IN  IF l < -(1000 * RAZAO_MIN_EXP) THEN -(1000 * RAZAO_MIN_EXP) ELSE l

\* termo = (2.3 * R * T) / (alpha * F), in microvolts, T in K and alpha as rationals.
\* Evaluated as ((2.3 * R / F) * T) / alpha in fixed point to stay within the
\* integer range: 2.3*R/F in 1e-8, T in 1e-2, alpha in 1e-2.
TermoTafel(T, alpha) ==
    LET K_e8 == (Tafel_dec * R_mil * 10000) \div F
        termo_e8 == (K_e8 * Fixo(T, 100)) \div Fixo(alpha, 100)
    IN  termo_e8 \div 100

\* faulty variant: the result is not floored at zero
calcular_sobretencao_ativacao_sem_piso(j, T) ==
    LET Tk == IF T = None THEN RAdd(temperatura_atual, Kelvin) ELSE T
    IN  IF RLe(j, Zero) THEN Zero
        ELSE LET razao_corrente == RDiv(j, parametros.densidade_corrente_troca)
                 termo == TermoTafel(Tk, parametros.coeficiente_transferencia)
                 eta == Rat((termo * Log10Limitado(razao_corrente)) \div 1000, 1000000)
             IN  eta

\* calcular_sobretencao_ativacao: Tafel, eta = termo * log10(j / j0), floored at 0
calcular_sobretencao_ativacao(j, T) ==
    LET Tk == IF T = None THEN RAdd(temperatura_atual, Kelvin) ELSE T
    IN  IF RLe(j, Zero) THEN Zero
        ELSE LET razao_corrente == RDiv(j, parametros.densidade_corrente_troca)
                 termo == TermoTafel(Tk, parametros.coeficiente_transferencia)
                 eta == Rat((termo * Log10Limitado(razao_corrente)) \div 1000, 1000000)
             IN  RMax(eta, Zero)

\* calcular_tensao_operacao: V = V_rev + V_act + V_ohm
calcular_tensao_operacao(j, T) ==
    LET Tk == IF T = None THEN RAdd(temperatura_atual, Kelvin) ELSE T
        V_rev == parametros.tensao_reversivel
        V_act == calcular_sobretencao_ativacao(j, Tk)
        V_ohm == RMul(j, parametros.resistencia_ohmica)
        V_total == RAdd(RAdd(V_rev, V_act), V_ohm)
    IN  V_total

\* faulty variant: the bracket limits are inclusive on the lower bracket
calcular_eficiencia_instantanea_inclusiva(potencia) ==
    IF RLe(potencia, Zero) THEN Zero
    ELSE LET carga_rel == RDiv(potencia, P_nom)
             fator_carga == IF RLe(carga_rel, Rat(3, 10)) THEN Rat(85, 100)
                            ELSE IF RLe(carga_rel, Rat(6, 10)) THEN Rat(92, 100)
                            ELSE IF RLe(carga_rel, Rat(9, 10)) THEN Rat(98, 100)
                            ELSE Rat(1, 1)
         IN  RMul(parametros.eficiencia, fator_carga)

\* calcular_eficiencia_instantanea: nominal efficiency times a load factor
calcular_eficiencia_instantanea(potencia) ==
    IF RLe(potencia, Zero) THEN Zero
    ELSE LET carga_rel == RDiv(potencia, P_nom)
             fator_carga == IF RLt(carga_rel, Rat(3, 10)) THEN Rat(85, 100)
                            ELSE IF RLt(carga_rel, Rat(6, 10)) THEN Rat(92, 100)
                            ELSE IF RLt(carga_rel, Rat(9, 10)) THEN Rat(98, 100)
                            ELSE Rat(1, 1)
         IN  RMul(parametros.eficiencia, fator_carga)

\* calcular_producao_por_corrente: Faraday's law, Eq. 2.26, in mol/s and kg/h
calcular_producao_por_corrente(I_dc, eficiencia_faraday) ==
    LET producao_molar == RDiv(RMul(eficiencia_faraday, I_dc), Rat(F, 1))
        producao_kg_h == RMul(RMul(producao_molar, RDiv(massa_molar_h2, Rat(1000, 1))),
                              Rat(3600, 1))
    IN  [mol_s |-> producao_molar, kg_h |-> producao_kg_h]

\* calcular_potencia_por_corrente: I * V * n / 1000, in kW
calcular_potencia_por_corrente(I_dc, V_celula, n_celulas) ==
    RDiv(RMul(RMul(I_dc, V_celula), n_celulas), Rat(1000, 1))

\* calcular_custo_capex: P_nom * capex per kW * exchange rate
calcular_custo_capex(taxa_cambio_usd_brl) ==
    LET custo_usd == RMul(P_nom, parametros.custo_capex_usd_kw)
    IN  RMul(custo_usd, taxa_cambio_usd_brl)

\* estimar_degradacao: max(1.0 - 0.005 * anos, 0.7)
estimar_degradacao(anos_operacao) ==
    LET taxa_degradacao_anual == Rat(5, 1000)
        perda == RMul(taxa_degradacao_anual, anos_operacao)
    IN  RMax(RAdd(Rat(1, 1), RMul(Rat(-1, 1), perda)), Rat(7, 10))

\* resumo, with the default exchange rate of calcular_custo_capex
resumo ==
    [tipo |-> tipo,
     potencia_nominal_kw |-> P_nom,
     eficiencia_nominal |-> parametros.eficiencia,
     temperatura_operacao_c |-> parametros.temperatura_operacao,
     horas_operacao |-> horas_operacao,
     producao_acumulada_kg |-> producao_acumulada_kg,
     potencia_atual_kw |-> potencia_atual,
     custo_capex_brl |-> calcular_custo_capex(Rat(5, 1)),
     vida_util_anos |-> parametros.vida_util_anos]

----------------------------------------------------------------------------
(* Construction *)

HistoricoVazio == [potencia |-> 1, producao |-> 2, temperatura |-> 3, tensao |-> 4]

SemChamada == [op |-> "nenhuma", args |-> <<>>, res |-> <<>>]

\* The fields an instance gets from __init__ with a valid tag
Instancia(t, potencia_nominal, personalizados) ==
    LET ps == carregar_parametros(t, personalizados)
    IN  [tipo |-> t,
         P_nom |-> potencia_nominal,
         P_min |-> RMul(potencia_nominal, Rat(2, 10)),
         parametros |-> ps,
         potencia_atual |-> Zero,
         temperatura_atual |-> ps.temperatura_operacao,
         horas_operacao |-> Zero,
         producao_acumulada_kg |-> Zero]

----------------------------------------------------------------------------
(* Specification of the equations alone: an instance as built by __init__, *)
(* then any sequence of calls of the query methods                         *)

TagsValidas == {AEL, PEMEL, SOEL}

PotenciasNominais == {Rat(1000, 1), Rat(400, 1)}

Personalizacoes ==
    {<<>>,
     [resistencia_ohmica |-> Zero],
     [eficiencia |-> Rat(1, 2), densidade_corrente_troca |-> Rat(1, 1), extra |-> Zero]}

EntradasPotencia ==
    {Rat(-50, 1), Zero, Rat(1, 2), Rat(100, 1), Rat(400, 1), Rat(800, 1),
     Rat(1000, 1), Rat(1001, 1), Rat(2500, 1)}

EntradasDensidade ==
    {Rat(-5, 1), Zero, Rat(1, 100000), Rat(1, 10000), Rat(1, 1000), Rat(1, 1),
     Rat(500, 1), Rat(5000, 1)}

EntradasTemperatura == {None, Rat(29815, 100)}

EntradasCarga ==
    {Rat(-10, 1), Zero, Rat(100, 1), Rat(120, 1), Rat(240, 1), Rat(300, 1), Rat(360, 1),
     Rat(500, 1), Rat(600, 1), Rat(900, 1), Rat(1200, 1)}

InitCalc ==
    /\ PARAMETROS_PADRAO = PadraoInicial
    /\ estado = "criado"
    /\ \E t \in TagsValidas, pn \in PotenciasNominais, pers \in Personalizacoes :
         LET i == Instancia(t, pn, pers)
         IN  /\ tipo = i.tipo
             /\ P_nom = i.P_nom
             /\ P_min = i.P_min
             /\ parametros = i.parametros
             /\ potencia_atual = i.potencia_atual
             /\ temperatura_atual = i.temperatura_atual
             /\ horas_operacao = i.horas_operacao
             /\ producao_acumulada_kg = i.producao_acumulada_kg
    /\ historico = HistoricoVazio
    /\ listas = [r \in 1..4 |-> <<>>]
    /\ copia = None
    /\ chamadas = <<>>
    /\ n_mut = 0
    /\ anterior = SemChamada
    /\ ultimo = SemChamada

Instancia_vars == <<PARAMETROS_PADRAO, estado, tipo, P_nom, P_min, parametros,
                    potencia_atual, temperatura_atual, horas_operacao,
                    producao_acumulada_kg, historico, listas>>

ChamarProducao(P_in) ==
    /\ estado = "criado"
    /\ anterior' = ultimo
    /\ ultimo' = [op |-> "calcular_producao", args |-> <<P_in>>, res |-> calcular_producao(P_in)]
    /\ UNCHANGED <<Instancia_vars, copia, chamadas, n_mut>>

\* faulty variant: the temperature passed is stored in the instance
TemperaturaAposTensao_guarda(T) == IF T = None THEN temperatura_atual ELSE T

\* self.temperatura_atual after calcular_tensao_operacao: T is a local name,
\* the attribute is only read
TemperaturaAposTensao(T) == temperatura_atual

ChamarTensao(j, T) ==
    /\ estado = "criado"
    /\ anterior' = ultimo
    /\ ultimo' = [op |-> "calcular_tensao_operacao", args |-> <<j, T>>,
                  res |-> calcular_tensao_operacao(j, T)]
    /\ temperatura_atual' = TemperaturaAposTensao(T)
    /\ UNCHANGED <<PARAMETROS_PADRAO, estado, tipo, P_nom, P_min, parametros,
                   potencia_atual, horas_operacao, producao_acumulada_kg,
                   historico, listas, copia, chamadas, n_mut>>

ChamarSobretensao(j, T) ==
    /\ estado = "criado"
    /\ anterior' = ultimo
    /\ ultimo' = [op |-> "calcular_sobretencao_ativacao", args |-> <<j, T>>,
                  res |-> calcular_sobretencao_ativacao(j, T)]
    /\ UNCHANGED <<Instancia_vars, copia, chamadas, n_mut>>

ChamarEficiencia(potencia) ==
    /\ estado = "criado"
    /\ anterior' = ultimo
    /\ ultimo' = [op |-> "calcular_eficiencia_instantanea", args |-> <<potencia>>,
                  res |-> calcular_eficiencia_instantanea(potencia)]
    /\ UNCHANGED <<Instancia_vars, copia, chamadas, n_mut>>

NextCalc ==
    \/ \E P_in \in EntradasPotencia : ChamarProducao(P_in)
    \/ \E j \in EntradasDensidade, T \in EntradasTemperatura : ChamarTensao(j, T)
    \/ \E j \in EntradasDensidade, T \in EntradasTemperatura : ChamarSobretensao(j, T)
    \/ \E potencia \in EntradasCarga : ChamarEficiencia(potencia)

SpecCalc == InitCalc /\ [][NextCalc]_vars

----------------------------------------------------------------------------
(* Claims about the equations, checked under SpecCalc *)

EhProducao(c) == c.op = "calcular_producao"

EhTensao(c) == c.op = "calcular_tensao_operacao"

\* C7: for every input power above the nominal power, calcular_producao returns
\* what it returns for the nominal power itself (the input is clamped, no error).
C7_ProducaoLimitada ==
    /\ (EhProducao(ultimo) /\ RLt(P_nom, ultimo.args[1]))
          => ultimo.res = calcular_producao(P_nom)
    /\ (EhProducao(anterior) /\ EhProducao(ultimo)
          /\ anterior.args[1] = P_nom /\ RLt(P_nom, ultimo.args[1]))
          => ultimo.res = anterior.res

C7_Witness ==
    /\ EhProducao(anterior) /\ anterior.args[1] = P_nom
    /\ EhProducao(ultimo) /\ RLt(P_nom, ultimo.args[1])
    /\ ultimo.res = anterior.res
    /\ RLt(Zero, ultimo.res)

\* C8: for every input power <= 0, calcular_producao returns exactly 0, and no
\* input gives a negative production.
C8_ProducaoNaoNegativa ==
    EhProducao(ultimo) =>
        /\ RLe(ultimo.args[1], Zero) => ultimo.res = Zero
        /\ RLe(Zero, ultimo.res)

C8_Witness ==
    /\ EhProducao(ultimo)
    /\ RLt(ultimo.args[1], Zero)
    /\ ultimo.res = Zero

\* C9: calcular_producao is non-decreasing over [0, P_nom]: of two calls with
\* inputs P1 <= P2 in that range, the one with P2 returns at least as much.
C9_ProducaoMonotona ==
    (/\ EhProducao(anterior) /\ EhProducao(ultimo)
     /\ RLe(Zero, anterior.args[1])
     /\ RLe(anterior.args[1], ultimo.args[1])
     /\ RLe(ultimo.args[1], P_nom))
        => RLe(anterior.res, ultimo.res)

C9_Witness ==
    /\ EhProducao(anterior) /\ EhProducao(ultimo)
    /\ RLt(Zero, anterior.args[1])
    /\ RLt(anterior.args[1], ultimo.args[1])
    /\ ultimo.args[1] = P_nom
    /\ RLt(anterior.res, ultimo.res)

\* C10 as stated: for every current density j > 0 the total cell voltage is
\* strictly greater than the reversible voltage.
C10_TensaoEstritamenteMaior ==
    (EhTensao(ultimo) /\ RLt(Zero, ultimo.args[1]))
        => RLt(parametros.tensao_reversivel, ultimo.res)

\* C10 amended: for every j > 0 the total cell voltage is at least the
\* reversible voltage, and it is equal to it when the ohmic resistance is 0
\* and j <= j0 (both added terms are then zero).
C10_TensaoNaoMenor ==
    (EhTensao(ultimo) /\ RLt(Zero, ultimo.args[1]))
        => /\ RLe(parametros.tensao_reversivel, ultimo.res)
           /\ (/\ parametros.resistencia_ohmica = Zero
               /\ RLe(ultimo.args[1], parametros.densidade_corrente_troca))
                 => ultimo.res = parametros.tensao_reversivel

C10_Witness ==
    /\ EhTensao(ultimo)
    /\ RLt(Zero, ultimo.args[1])
    /\ RLt(ultimo.args[1], parametros.densidade_corrente_troca)
    /\ parametros.resistencia_ohmica = Zero
    /\ ultimo.res = parametros.tensao_reversivel

EhSobretensao(c) == c.op = "calcular_sobretencao_ativacao"

\* C11: calcular_sobretencao_ativacao never returns a negative value: it returns
\* exactly 0 for every j <= 0 and for every 0 < j <= j0, and a positive value
\* only when j > j0.
C11_SobretensaoNaoNegativa ==
    EhSobretensao(ultimo) =>
        /\ RLe(Zero, ultimo.res)
        /\ RLe(ultimo.args[1], Zero) => ultimo.res = Zero
        /\ RLe(ultimo.args[1], parametros.densidade_corrente_troca) => ultimo.res = Zero
        /\ RLt(Zero, ultimo.res) => RLt(parametros.densidade_corrente_troca, ultimo.args[1])

\* the scenario of the spec: j = 0.1 * j0 returns exactly 0
C11_Witness ==
    /\ EhSobretensao(ultimo)
    /\ ultimo.args[1] = RMul(parametros.densidade_corrente_troca, Rat(1, 10))
    /\ ultimo.res = Zero
    /\ EhSobretensao(anterior)
    /\ RLt(parametros.densidade_corrente_troca, anterior.args[1])
    /\ RLt(Zero, anterior.res)

EhEficiencia(c) == c.op = "calcular_eficiencia_instantanea"

\* the load factor the claim gives: the brackets of potencia / P_nom, stated on
\* potencia itself (P_nom > 0)
FatorEsperado(potencia) ==
    IF RLt(potencia, RMul(Rat(30, 100), P_nom)) THEN Rat(85, 100)
    ELSE IF RLt(potencia, RMul(Rat(60, 100), P_nom)) THEN Rat(92, 100)
    ELSE IF RLt(potencia, RMul(Rat(90, 100), P_nom)) THEN Rat(98, 100)
    ELSE Rat(1, 1)

\* C13: calcular_eficiencia_instantanea returns 0 for potencia <= 0 and otherwise
\* the nominal efficiency times 0.85 below 30% load, 0.92 in [30%, 60%), 0.98 in
\* [60%, 90%) and 1.0 from 90% on; a load of exactly 30%, 60% or 90% takes the
\* higher bracket's factor.
C13_EficienciaPorFaixa ==
    EhEficiencia(ultimo) =>
        IF RLe(ultimo.args[1], Zero) THEN ultimo.res = Zero
        ELSE ultimo.res = RMul(parametros.eficiencia, FatorEsperado(ultimo.args[1]))

\* a load of exactly 30% gets 0.92, after a load of exactly 90% that got 1.0
C13_Witness ==
    /\ EhEficiencia(ultimo)
    /\ ultimo.args[1] = RMul(Rat(3, 10), P_nom)
    /\ ultimo.res = RMul(parametros.eficiencia, Rat(92, 100))
    /\ EhEficiencia(anterior)
    /\ anterior.args[1] = RMul(Rat(9, 10), P_nom)
    /\ anterior.res = parametros.eficiencia

\* the instance of a technology with its canonical parameters and the nominal
\* power of the instance of the state
Canonica(t) == Instancia(t, P_nom, <<>>)

\* C14: for the AEL, PEMEL and SOEL instances with canonical parameters and the
\* same nominal power, and any equal input power P_in > 0, calcular_producao
\* gives strictly AEL < PEMEL < SOEL.
C14_OrdemDasTecnologias ==
    (/\ EhProducao(ultimo)
     /\ RLt(Zero, ultimo.args[1])
     /\ parametros = Canonica(tipo).parametros)
        => LET P_in == ultimo.args[1]
               de(t) == IF t = tipo THEN ultimo.res ELSE producao_de(Canonica(t), P_in)
           IN  /\ RLt(de(AEL), de(PEMEL))
               /\ RLt(de(PEMEL), de(SOEL))
               /\ ultimo.res = producao_de(Canonica(tipo), P_in)

C14_Witness ==
    /\ EhProducao(ultimo)
    /\ RLt(Zero, ultimo.args[1])
    /\ tipo = PEMEL
    /\ parametros = Canonica(PEMEL).parametros
    /\ RLt(producao_de(Canonica(AEL), ultimo.args[1]), ultimo.res)
    /\ RLt(ultimo.res, producao_de(Canonica(SOEL), ultimo.args[1]))

----------------------------------------------------------------------------
(* The heap of list objects *)

CHAVES == {"potencia", "producao", "temperatura", "tensao"}

\* the references a dict holds
Refs(d) == IF d = None THEN {} ELSE {d[k] : k \in DOMAIN d}

\* the contents a dict shows to whoever reads it
Conteudo(d, h) == [k \in DOMAIN d |-> h[d[k]]]

\* a fresh reference: the least one not in use
ProxRef(usados) ==
    CHOOSE r \in 1..(Cardinality(usados) + 1) :
        r \notin usados /\ \A q \in 1..(r - 1) : q \in usados

\* a new dict of four new empty lists, as written in __init__ and reset_historico
NovoHistorico(usados) ==
    LET r1 == ProxRef(usados)
        r2 == ProxRef(usados \cup {r1})
        r3 == ProxRef(usados \cup {r1, r2})
        r4 == ProxRef(usados \cup {r1, r2, r3})
    IN  [potencia |-> r1, producao |-> r2, temperatura |-> r3, tensao |-> r4]

\* lists that no dict refers to any more are dropped
Coleta(h, vivas) == [r \in (DOMAIN h) \cap vivas |-> h[r]]

----------------------------------------------------------------------------
(* __init__ *)

INVALIDO == <<"I", "N", "V", "A", "L", "I", "D", "O">>

Tags == {AEL, <<"a", "e", "l">>, <<"P", "e", "m", "e", "l">>, <<"s", "o", "e", "l">>,
         INVALIDO, <<"A", "E">>, <<"a", "e", "l", " ">>}

PersonalizacoesInit == {<<>>, [resistencia_ohmica |-> Zero, extra |-> Zero]}

\* faulty variant: the tag is looked up as given, without upper()
TipoDe_sem_upper(tag) == tag

\* self.tipo = tipo.upper()
TipoDe(tag) == Upper(tag)

\* faulty variant: base is the class-level dict itself, so update writes into it
TabelaAposCarregar_sem_copia(t, personalizados) ==
    IF DOMAIN personalizados # {}
    THEN [PARAMETROS_PADRAO EXCEPT ![t] = Update(@, personalizados)]
    ELSE PARAMETROS_PADRAO

\* the class-level table after _carregar_parametros: base is a copy of the
\* entry of the tag, update writes into the copy
TabelaAposCarregar(t, personalizados) == PARAMETROS_PADRAO

\* Eletrolisador(tag, potencia_nominal, personalizados): the state follows the
\* object the latest constructor call gave, none when it raised
Construir(tag, potencia_nominal, personalizados) ==
    /\ LET t == TipoDe(tag)
       IN  IF t \notin DOMAIN PARAMETROS_PADRAO
           THEN /\ estado' = "erro"
                /\ ultimo' = [op |-> "__init__",
                              args |-> <<tag, potencia_nominal, personalizados>>,
                              res |-> "ValueError"]
                /\ tipo' = None
                /\ P_nom' = None
                /\ P_min' = None
                /\ parametros' = None
                /\ potencia_atual' = None
                /\ temperatura_atual' = None
                /\ horas_operacao' = None
                /\ producao_acumulada_kg' = None
                /\ historico' = None
                /\ listas' = <<>>
                /\ UNCHANGED PARAMETROS_PADRAO
           ELSE LET i == Instancia(t, potencia_nominal, personalizados)
                    h == NovoHistorico({})
                IN  /\ estado' = "criado"
                    /\ tipo' = i.tipo
                    /\ P_nom' = i.P_nom
                    /\ P_min' = i.P_min
                    /\ parametros' = i.parametros
                    /\ potencia_atual' = i.potencia_atual
                    /\ temperatura_atual' = i.temperatura_atual
                    /\ horas_operacao' = i.horas_operacao
                    /\ producao_acumulada_kg' = i.producao_acumulada_kg
                    /\ historico' = h
                    /\ listas' = [r \in Refs(h) |-> <<>>]
                    /\ PARAMETROS_PADRAO' = TabelaAposCarregar(t, personalizados)
                    /\ ultimo' = [op |-> "__init__",
                                  args |-> <<tag, potencia_nominal, personalizados>>,
                                  res |-> "ok"]
    /\ copia' = None
    /\ chamadas' = <<>>
    /\ n_mut' = 0
    /\ UNCHANGED anterior

----------------------------------------------------------------------------
(* operar *)

\* faulty variant: a request above nominal passes through
potencia_efetiva_sem_limite(potencia_solicitada) ==
    RMax(Zero, potencia_solicitada)

\* faulty variant: a request below the minimum load is raised to the minimum
potencia_efetiva_no_minimo(potencia_solicitada) ==
    IF RLt(P_nom, potencia_solicitada) THEN P_nom
    ELSE IF RLt(potencia_solicitada, P_min) /\ RLt(Zero, potencia_solicitada) THEN P_min
    ELSE RMax(Zero, potencia_solicitada)

\* the effective power: P_nom above nominal, else max(0, requested)
potencia_efetiva(potencia_solicitada) ==
    IF RLt(P_nom, potencia_solicitada) THEN P_nom
    ELSE RMax(Zero, potencia_solicitada)

\* the warnings logged for the request
avisos(potencia_solicitada) ==
    (IF RLt(potencia_solicitada, P_min) /\ RLt(Zero, potencia_solicitada)
        THEN {"abaixo_do_minimo"} ELSE {})
    \cup (IF RLt(P_nom, potencia_solicitada) THEN {"acima_do_nominal"} ELSE {})

\* j = (P * 1000) / (V_rev * area_celula * 100), area_celula = 100
densidade_estimada(pe) ==
    LET area_celula == Rat(100, 1)
    IN  RDiv(RMul(pe, Rat(1000, 1)),
             RMul(RMul(parametros.tensao_reversivel, area_celula), Rat(100, 1)))

\* faulty variant: the interval replaces the hours instead of adding to them
NovasHoras_atribui(delta_t_horas) == delta_t_horas

\* self.horas_operacao += delta_t_horas
NovasHoras(delta_t_horas) == RAdd(horas_operacao, delta_t_horas)

\* self.producao_acumulada_kg += producao_periodo
NovaProducaoAcumulada(producao_periodo) == RAdd(producao_acumulada_kg, producao_periodo)

operar(potencia_solicitada, delta_t_horas) ==
    /\ estado = "criado"
    /\ Len(chamadas) < MaxOps
    /\ LET pe == potencia_efetiva(potencia_solicitada)
           producao_kg_h == calcular_producao(pe)
           producao_periodo == RMul(producao_kg_h, delta_t_horas)
           j == densidade_estimada(pe)
           V == calcular_tensao_operacao(j, None)
       IN  /\ potencia_atual' = pe
           /\ horas_operacao' = NovasHoras(delta_t_horas)
           /\ producao_acumulada_kg' = NovaProducaoAcumulada(producao_periodo)
           /\ listas' = [listas EXCEPT
                            ![historico.potencia] = Append(@, pe),
                            ![historico.producao] = Append(@, producao_periodo),
                            ![historico.temperatura] = Append(@, temperatura_atual),
                            ![historico.tensao] = Append(@, V)]
           /\ ultimo' = [op |-> "operar",
                         args |-> <<potencia_solicitada, delta_t_horas>>,
                         avisos |-> avisos(potencia_solicitada),
                         res |-> [potencia_operacao |-> pe,
                                  producao_kg_h |-> producao_kg_h,
                                  producao_periodo_kg |-> producao_periodo,
                                  tensao_celula |-> V,
                                  temperatura |-> temperatura_atual,
                                  eficiencia_instantanea |->
                                      calcular_eficiencia_instantanea(pe)]]
           /\ chamadas' = Append(chamadas, <<delta_t_horas, producao_periodo>>)
    /\ UNCHANGED <<PARAMETROS_PADRAO, estado, tipo, P_nom, P_min, parametros,
                   temperatura_atual, historico, copia, n_mut, anterior>>

----------------------------------------------------------------------------
(* The history: reset_historico, get_historico, and what the caller may do  *)
(* with the dict get_historico returned                                     *)

\* faulty variant: the reset also zeroes the cumulative counters
ContadoresAposReset_zera == <<Zero, Zero>>

\* reset_historico assigns self.historico and nothing else
ContadoresAposReset == <<horas_operacao, producao_acumulada_kg>>

reset_historico ==
    /\ estado = "criado"
    /\ LET h == NovoHistorico(Refs(copia))
       IN  /\ historico' = h
           /\ listas' = Coleta(listas, Refs(copia)) @@ [r \in Refs(h) |-> <<>>]
    /\ horas_operacao' = ContadoresAposReset[1]
    /\ producao_acumulada_kg' = ContadoresAposReset[2]
    /\ ultimo' = [op |-> "reset_historico", args |-> <<>>, res |-> None]
    /\ UNCHANGED <<PARAMETROS_PADRAO, estado, tipo, P_nom, P_min, parametros,
                   potencia_atual, temperatura_atual, copia, chamadas, n_mut, anterior>>

\* return self.historico.copy(): a new dict holding the same list objects
get_historico ==
    /\ estado = "criado"
    /\ copia' = [k \in DOMAIN historico |-> historico[k]]
    /\ listas' = Coleta(listas, Refs(historico))
    /\ ultimo' = [op |-> "get_historico", args |-> <<>>, res |-> copia']
    /\ UNCHANGED <<PARAMETROS_PADRAO, estado, tipo, P_nom, P_min, parametros,
                   potencia_atual, temperatura_atual, horas_operacao,
                   producao_acumulada_kg, historico, chamadas, n_mut, anterior>>

Instancia_campos == <<PARAMETROS_PADRAO, estado, tipo, P_nom, P_min, parametros,
                      potencia_atual, temperatura_atual, horas_operacao,
                      producao_acumulada_kg, historico>>

ValorDoCliente == Rat(999, 1)

\* copia[k].append(v)
ClienteAcrescenta(k) ==
    /\ copia # None
    /\ n_mut < MaxMut
    /\ listas' = [listas EXCEPT ![copia[k]] = Append(@, ValorDoCliente)]
    /\ n_mut' = n_mut + 1
    /\ ultimo' = [op |-> "cliente_append", args |-> <<k>>, res |-> None]
    /\ UNCHANGED <<Instancia_campos, copia, chamadas, anterior>>

\* copia[k].pop()
ClienteRemove(k) ==
    /\ copia # None
    /\ n_mut < MaxMut
    /\ listas[copia[k]] # <<>>
    /\ listas' = [listas EXCEPT ![copia[k]] = SubSeq(@, 1, Len(@) - 1)]
    /\ n_mut' = n_mut + 1
    /\ ultimo' = [op |-> "cliente_pop", args |-> <<k>>, res |-> None]
    /\ UNCHANGED <<Instancia_campos, copia, chamadas, anterior>>

\* copia[k] = []
ClienteSubstitui(k) ==
    /\ copia # None
    /\ n_mut < MaxMut
    /\ LET r == ProxRef(Refs(historico) \cup Refs(copia))
           c == [copia EXCEPT ![k] = r]
       IN  /\ copia' = c
           /\ listas' = Coleta(listas, Refs(historico) \cup Refs(c)) @@ (r :> <<>>)
    /\ n_mut' = n_mut + 1
    /\ ultimo' = [op |-> "cliente_substitui", args |-> <<k>>, res |-> None]
    /\ UNCHANGED <<Instancia_campos, chamadas, anterior>>

----------------------------------------------------------------------------
(* Specification of the instance: construction, then any sequence of calls *)

PotenciasSolicitadas == {Rat(-100, 1), Zero, Rat(100, 1), Rat(500, 1), Rat(1500, 1)}

Intervalos == {Rat(-1, 1), Rat(1, 2), Rat(1, 1)}

Init ==
    /\ PARAMETROS_PADRAO = PadraoInicial
    /\ estado = "nenhum"
    /\ tipo = None
    /\ P_nom = None
    /\ P_min = None
    /\ parametros = None
    /\ potencia_atual = None
    /\ temperatura_atual = None
    /\ horas_operacao = None
    /\ producao_acumulada_kg = None
    /\ historico = None
    /\ listas = <<>>
    /\ copia = None
    /\ chamadas = <<>>
    /\ n_mut = 0
    /\ anterior = SemChamada
    /\ ultimo = SemChamada

Next ==
    \/ \E tag \in Tags, pers \in PersonalizacoesInit : Construir(tag, Rat(1000, 1), pers)
    \/ \E ps \in PotenciasSolicitadas, dt \in Intervalos : operar(ps, dt)
    \/ reset_historico

Spec == Init /\ [][Next]_vars

----------------------------------------------------------------------------
(* Specification of the history: an instance as built by __init__, operated, *)
(* its history read, reset, and modified by the caller through the dict      *)
(* get_historico returned                                                    *)

PotenciasHist == {Rat(100, 1), Rat(1500, 1)}

IntervalosHist == {Rat(1, 1)}

InitHist ==
    /\ PARAMETROS_PADRAO = PadraoInicial
    /\ estado = "criado"
    /\ \E t \in TagsValidas :
         LET i == Instancia(t, Rat(1000, 1), <<>>)
         IN  /\ tipo = i.tipo
             /\ P_nom = i.P_nom
             /\ P_min = i.P_min
             /\ parametros = i.parametros
             /\ potencia_atual = i.potencia_atual
             /\ temperatura_atual = i.temperatura_atual
             /\ horas_operacao = i.horas_operacao
             /\ producao_acumulada_kg = i.producao_acumulada_kg
    /\ historico = NovoHistorico({})
    /\ listas = [r \in Refs(NovoHistorico({})) |-> <<>>]
    /\ copia = None
    /\ chamadas = <<>>
    /\ n_mut = 0
    /\ anterior = SemChamada
    /\ ultimo = [op |-> "__init__", args |-> <<tipo>>, res |-> "ok"]

NextHist ==
    \/ \E ps \in PotenciasHist, dt \in IntervalosHist : operar(ps, dt)
    \/ reset_historico
    \/ get_historico
    \/ \E k \in CHAVES : ClienteAcrescenta(k)
    \/ \E k \in CHAVES : ClienteRemove(k)
    \/ \E k \in CHAVES : ClienteSubstitui(k)

SpecHist == InitHist /\ [][NextHist]_vars

----------------------------------------------------------------------------
(* Specification of the queries: an instance as built by __init__, operated, *)
(* reset, and queried through each of its query methods                      *)

ChamarProducaoPorCorrente(I_dc, eficiencia_faraday) ==
    /\ estado = "criado"
    /\ anterior' = ultimo
    /\ ultimo' = [op |-> "calcular_producao_por_corrente",
                  args |-> <<I_dc, eficiencia_faraday>>,
                  res |-> calcular_producao_por_corrente(I_dc, eficiencia_faraday)]
    /\ UNCHANGED <<Instancia_vars, copia, chamadas, n_mut>>

ChamarPotenciaPorCorrente(I_dc, V_celula, n_celulas) ==
    /\ estado = "criado"
    /\ anterior' = ultimo
    /\ ultimo' = [op |-> "calcular_potencia_por_corrente",
                  args |-> <<I_dc, V_celula, n_celulas>>,
                  res |-> calcular_potencia_por_corrente(I_dc, V_celula, n_celulas)]
    /\ UNCHANGED <<Instancia_vars, copia, chamadas, n_mut>>

ChamarCustoCapex(taxa_cambio_usd_brl) ==
    /\ estado = "criado"
    /\ anterior' = ultimo
    /\ ultimo' = [op |-> "calcular_custo_capex", args |-> <<taxa_cambio_usd_brl>>,
                  res |-> calcular_custo_capex(taxa_cambio_usd_brl)]
    /\ UNCHANGED <<Instancia_vars, copia, chamadas, n_mut>>

ChamarDegradacao(anos_operacao) ==
    /\ estado = "criado"
    /\ anterior' = ultimo
    /\ ultimo' = [op |-> "estimar_degradacao", args |-> <<anos_operacao>>,
                  res |-> estimar_degradacao(anos_operacao)]
    /\ UNCHANGED <<Instancia_vars, copia, chamadas, n_mut>>

ChamarResumo ==
    /\ estado = "criado"
    /\ anterior' = ultimo
    /\ ultimo' = [op |-> "resumo", args |-> <<>>, res |-> resumo]
    /\ UNCHANGED <<Instancia_vars, copia, chamadas, n_mut>>

PotenciasConsulta == {Rat(1500, 1)}

NextConsultas ==
    \/ \E ps \in PotenciasConsulta, dt \in IntervalosHist : operar(ps, dt)
    \/ reset_historico
    \/ get_historico
    \/ ChamarProducao(Rat(500, 1))
    \/ ChamarProducaoPorCorrente(Rat(1000, 1), Rat(95, 100))
    \/ ChamarTensao(Rat(500, 1), Rat(29815, 100))
    \/ ChamarSobretensao(Rat(500, 1), None)
    \/ ChamarPotenciaPorCorrente(Rat(1000, 1), Rat(18, 10), Rat(100, 1))
    \/ ChamarEficiencia(Rat(500, 1))
    \/ ChamarCustoCapex(Rat(5, 1))
    \/ ChamarDegradacao(Rat(100, 1))
    \/ ChamarResumo

SpecConsultas == InitHist /\ [][NextConsultas]_vars

----------------------------------------------------------------------------
(* Claims about the instance, checked under Spec *)

RECURSIVE SomaProducoes(_)
SomaProducoes(cs) ==
    IF cs = <<>> THEN Zero
    ELSE RAdd(SomaProducoes(SubSeq(cs, 1, Len(cs) - 1)), cs[Len(cs)][2])

MesmoIntervalo == \A n \in 1..Len(chamadas) : chamadas[n][1] = chamadas[1][1]

\* C1: after N calls of operar on a fresh instance, all with the same interval
\* dt, horas_operacao = N * dt and producao_acumulada_kg is the sum of the
\* producao_periodo_kg the N calls returned.
C1_ContagemDeHoras ==
    (estado = "criado" /\ MesmoIntervalo) =>
        /\ horas_operacao =
              (IF chamadas = <<>> THEN Zero
               ELSE RMul(Rat(Len(chamadas), 1), chamadas[1][1]))
        /\ producao_acumulada_kg = SomaProducoes(chamadas)

C1_Witness ==
    /\ estado = "criado"
    /\ Len(chamadas) >= 2
    /\ MesmoIntervalo
    /\ chamadas[1][1] = Rat(1, 2)
    /\ horas_operacao = Rat(Len(chamadas), 2)
    /\ RLt(Zero, chamadas[1][2])
    /\ RLt(chamadas[1][2], producao_acumulada_kg)

\* C2 as stated: in every state reached by operar calls with any power and any
\* interval, and reset_historico calls, horas_operacao and producao_acumulada_kg
\* are >= 0 and neither decreases from one step to the next.
C2_ContadoresMonotonos ==
    [][/\ estado' = "criado" =>
            /\ RLe(Zero, horas_operacao')
            /\ RLe(Zero, producao_acumulada_kg')
       /\ ultimo'.op \in {"operar", "reset_historico"} =>
            /\ RLe(horas_operacao, horas_operacao')
            /\ RLe(producao_acumulada_kg, producao_acumulada_kg')]_vars

\* C3: with nominal power > 0, in every state 0 <= potencia_atual <= P_nom,
\* whatever powers were requested.
C3_PotenciaNosLimites ==
    (estado = "criado" /\ RLt(Zero, P_nom)) =>
        /\ RLe(Zero, potencia_atual)
        /\ RLe(potencia_atual, P_nom)

C3_Witness ==
    /\ estado = "criado"
    /\ ultimo.op = "operar"
    /\ RLt(P_nom, ultimo.args[1])
    /\ potencia_atual = P_nom

\* C4: reset_historico leaves the four history lists empty and leaves
\* horas_operacao, producao_acumulada_kg, potencia_atual, temperatura_atual and
\* the parameters as they were, in whatever state it is called.
C4_ResetSoHistorico ==
    [][ultimo'.op = "reset_historico" =>
          /\ \A k \in CHAVES : listas'[historico'[k]] = <<>>
          /\ DOMAIN historico' = CHAVES
          /\ UNCHANGED <<horas_operacao, producao_acumulada_kg, potencia_atual,
                         temperatura_atual, parametros, tipo, P_nom, P_min>>]_vars

C4_Witness ==
    /\ ultimo.op = "reset_historico"
    /\ Len(chamadas) >= 2
    /\ RLt(Zero, horas_operacao)
    /\ RLt(Zero, producao_acumulada_kg)
    /\ \A k \in CHAVES : listas[historico[k]] = <<>>

\* C5 as stated: get_historico returns a defensive copy: no modification the
\* caller makes to the returned value (replacing a key, appending to or
\* removing from one of its lists) changes the instance's own history, and a
\* later operar call does not change a copy returned before it.
C5_CopiaDefensiva ==
    [][/\ ultimo'.op \in {"cliente_append", "cliente_pop", "cliente_substitui"}
            => Conteudo(historico', listas') = Conteudo(historico, listas)
       /\ (ultimo'.op = "operar" /\ copia # None)
            => Conteudo(copia', listas') = Conteudo(copia, listas)]_vars

MINUSCULA == [A |-> "a", E |-> "e", L |-> "l", P |-> "p", M |-> "m",
              S |-> "s", O |-> "o", I |-> "i", N |-> "n", V |-> "v", D |-> "d"]

Lower(s) == [k \in 1..Len(s) |-> IF s[k] \in DOMAIN MINUSCULA THEN MINUSCULA[s[k]] ELSE s[k]]

\* the known tag that equals the given one when letter case is ignored, if any
TagConhecida(tag) == {t \in {AEL, PEMEL, SOEL} : Lower(t) = Lower(tag)}

\* C6: a constructor call whose tag is, ignoring letter case, none of AEL, PEMEL,
\* SOEL fails with ValueError and yields no instance; a tag equal to one of the
\* three in any letter case succeeds and tipo is that tag in upper case.
C6_TipoInvalido ==
    ultimo.op = "__init__" =>
        IF TagConhecida(ultimo.args[1]) = {}
        THEN /\ ultimo.res = "ValueError"
             /\ estado = "erro"
             /\ tipo = None /\ parametros = None /\ historico = None
        ELSE /\ ultimo.res = "ok"
             /\ estado = "criado"
             /\ tipo \in TagConhecida(ultimo.args[1])

C6_Witness ==
    /\ ultimo.op = "__init__"
    /\ ultimo.args[1] = INVALIDO
    /\ ultimo.res = "ValueError"
    /\ estado = "erro"

CAMPOS_RESULTADO == {"potencia_operacao", "producao_kg_h", "producao_periodo_kg",
                     "tensao_celula", "temperatura", "eficiencia_instantanea"}

\* the effective power the claim gives for a request
PotenciaEsperada(ps) ==
    IF RLt(P_nom, ps) THEN P_nom
    ELSE IF RLe(ps, Zero) THEN Zero
    ELSE ps

\* C12: operar never fails on a limit excursion: a request above P_nom runs at
\* P_nom, a request in (0, P_min) runs at the requested value, a request <= 0
\* runs at 0, any other at the requested value; in every case the state is
\* updated, one entry is appended to each history list and a result is returned.
C12_PotenciaEfetiva ==
    [][ultimo'.op = "operar" =>
          LET pe == PotenciaEsperada(ultimo'.args[1])
          IN  /\ ultimo'.res.potencia_operacao = pe
              /\ DOMAIN ultimo'.res = CAMPOS_RESULTADO
              /\ potencia_atual' = pe
              /\ horas_operacao' = RAdd(horas_operacao, ultimo'.args[2])
              /\ producao_acumulada_kg' =
                    RAdd(producao_acumulada_kg, ultimo'.res.producao_periodo_kg)
              /\ \A k \in CHAVES :
                    Len(listas'[historico'[k]]) = Len(listas[historico[k]]) + 1]_vars

C12_Witness ==
    /\ ultimo.op = "operar"
    /\ RLt(Zero, ultimo.args[1])
    /\ RLt(ultimo.args[1], P_min)
    /\ "abaixo_do_minimo" \in ultimo.avisos
    /\ potencia_atual = ultimo.args[1]
    /\ ultimo.res.potencia_operacao = ultimo.args[1]
    /\ Len(listas[historico.potencia]) >= 1

\* the parameters the claim gives to an instance of tag t built with overrides
ParametrosEsperados(t, personalizados) ==
    [k \in CAMPOS |-> IF k \in DOMAIN personalizados THEN personalizados[k]
                      ELSE PadraoInicial[t][k]]

\* C15: no sequence of constructions and operations changes the class-level
\* default table; an instance built with overrides has the overrides in the
\* overridden fields and the canonical defaults of its tag in the others, and
\* an instance built without overrides, after any others, has exactly the
\* canonical defaults.
C15_PadraoIntacto ==
    /\ PARAMETROS_PADRAO = PadraoInicial
    /\ (ultimo.op = "__init__" /\ ultimo.res = "ok") =>
          parametros = ParametrosEsperados(tipo, ultimo.args[3])

C15_Witness ==
    /\ ultimo.op = "__init__"
    /\ ultimo.res = "ok"
    /\ "resistencia_ohmica" \in DOMAIN ultimo.args[3]
    /\ parametros.resistencia_ohmica = ultimo.args[3].resistencia_ohmica
    /\ parametros.resistencia_ohmica # PadraoInicial[tipo].resistencia_ohmica
    /\ parametros.eficiencia = PadraoInicial[tipo].eficiencia
    /\ PARAMETROS_PADRAO = PadraoInicial

\* C16 as stated: the history is append-only between resets: every operar call
\* appends to each of the four lists one entry, the effective power, the interval
\* production, the temperature and the cell voltage that the call returns,
\* changes no earlier entry, and the appended power is potencia_atual after the
\* call; reset_historico empties the lists and nothing else changes them, so
\* the four lists always have the same length, the number of operar calls since
\* construction or the last reset.
C16_HistoricoSoAcrescenta ==
    [][(estado = "criado" /\ estado' = "criado" /\ ultimo'.op # "__init__") =>
          LET antes == Conteudo(historico, listas)
              depois == Conteudo(historico', listas')
          IN  /\ ultimo'.op = "operar" =>
                    /\ depois.potencia = Append(antes.potencia, ultimo'.res.potencia_operacao)
                    /\ depois.producao = Append(antes.producao, ultimo'.res.producao_periodo_kg)
                    /\ depois.temperatura = Append(antes.temperatura, ultimo'.res.temperatura)
                    /\ depois.tensao = Append(antes.tensao, ultimo'.res.tensao_celula)
                    /\ depois.potencia[Len(depois.potencia)] = potencia_atual'
              /\ ultimo'.op = "reset_historico" => \A k \in CHAVES : depois[k] = <<>>
              /\ ultimo'.op \notin {"operar", "reset_historico"} => depois = antes
              /\ \A k \in CHAVES : Len(depois[k]) = Len(depois.potencia)]_vars

CONSULTAS == {"calcular_producao", "calcular_producao_por_corrente",
              "calcular_tensao_operacao", "calcular_sobretencao_ativacao",
              "calcular_potencia_por_corrente", "calcular_eficiencia_instantanea",
              "calcular_custo_capex", "estimar_degradacao", "resumo", "get_historico"}

\* C17: the state of the instance (potencia_atual, temperatura_atual,
\* horas_operacao, producao_acumulada_kg, the history, the parameters) is changed
\* only by operar and, the history alone, by reset_historico: each of the ten
\* query methods leaves all of it as it was, and operar never changes
\* temperatura_atual, P_nom, P_min or the parameters.
C17_SoOperarMudaEstado ==
    [][LET mesmo_historico ==
               /\ historico' = historico
               /\ Conteudo(historico', listas') = Conteudo(historico, listas)
           mesmo_resto ==
               /\ potencia_atual' = potencia_atual
               /\ temperatura_atual' = temperatura_atual
               /\ horas_operacao' = horas_operacao
               /\ producao_acumulada_kg' = producao_acumulada_kg
               /\ parametros' = parametros
               /\ P_nom' = P_nom
               /\ P_min' = P_min
       IN  /\ ultimo'.op \in CONSULTAS => (mesmo_historico /\ mesmo_resto)
           /\ ultimo'.op = "reset_historico" => mesmo_resto
           /\ ultimo'.op = "operar" =>
                 /\ temperatura_atual' = temperatura_atual
                 /\ parametros' = parametros
                 /\ P_nom' = P_nom
                 /\ P_min' = P_min
           /\ ~(mesmo_historico /\ mesmo_resto) =>
                 ultimo'.op \in {"operar", "reset_historico"}]_vars

C17_Witness ==
    /\ ultimo.op = "calcular_tensao_operacao"
    /\ ultimo.args[2] # None
    /\ anterior.op = "resumo"
    /\ chamadas # <<>>
    /\ RLt(Zero, horas_operacao)
    /\ temperatura_atual = parametros.temperatura_operacao
    /\ Len(listas[historico.potencia]) = Len(chamadas)
    /\ listas[historico.potencia][Len(chamadas)] = potencia_atual
    /\ anterior.res.horas_operacao = horas_operacao

====
